---- MODULE Spec2Model ----
(***************************************************************************)
(* Model of ng-rforms:                                                     *)
(*   - NgRFModelSetterService (lib/model/model-setter.service.ts): the     *)
(*     dot-notation getValue / setValue engine;                            *)
(*   - NgRFModelDirective (the rfModel directive): registration of the     *)
(*     form control in the parent form group and the propagation of value  *)
(*     changes into rfModelData.                                           *)
(*                                                                         *)
(* JavaScript strings are sequences of one-character strings, so that      *)
(* replace / split / parseInt are computed character by character.         *)
(* JavaScript values are tagged records; objects and arrays carry a        *)
(* function f from property keys to values, arrays carry their length.     *)
(* The model graph is a tree (no aliasing), so an in-place mutation of a   *)
(* nested container is the functional update of every ancestor.            *)
(* Property keys are own properties: the names a JavaScript object or      *)
(* array inherits or builds in (length, __proto__, constructor, ...) are   *)
(* not among the keys of the paths and models explored. The service is an  *)
(* ES module, hence strict mode code: assigning a property on a primitive  *)
(* throws a TypeError. The DOM element of the directive is not modelled.   *)
(***************************************************************************)
EXTENDS Integers, Sequences, FiniteSets, TLC

VARIABLES
    \* ---- accessor calls (specification Spec) ----
    path,        \* the path argument
    value,       \* the value argument of setValue
    model,       \* the model argument, mutated in place by setValue
    model0,      \* the model as it was before the call
    pc,          \* "ready", then "set" / "setModel" / "got", then "setgot" / "setModelgot" ("idle": no call)
    result,      \* what getValue returned
    logged,      \* console.error was called by setValue
    raised,      \* an exception escaped to the caller
    \* ---- directives inside one form (specification DirectiveSpec) ----
    rfModelData, \* NgRFFormComponent.rfModelData
    formGroup,   \* NgRFFormComponent.formGroup.controls: name -> control id
    ctrlValue,   \* FormControl.value, per control id (NoControl: not created)
    subscribers, \* FormControl.valueChanges subscribers, per control id
    dir,         \* per directive: its fields
    last,        \* the last value-change notification delivered
    events       \* number of notifications so far

accVars == <<path, value, model, model0, pc, result, logged, raised>>
dirVars == <<rfModelData, formGroup, ctrlValue, subscribers, dir, last, events>>
vars == <<path, value, model, model0, pc, result, logged, raised,
          rfModelData, formGroup, ctrlValue, subscribers, dir, last, events>>

---------------------------------------------------------------------------
(* Bounds *)

MaxPathLen == 2      \* paths of up to this many characters over PathChars
MaxSteps == 3        \* paths of up to this many steps over StepTokens
MaxEvents == 3       \* value-change notifications per behaviour

---------------------------------------------------------------------------
(* JavaScript values *)

Undef == [k |-> "undefined"]
Null == [k |-> "null"]
Bool(b) == [k |-> "boolean", b |-> b]
Num(n) == [k |-> "number", n |-> n]
Str(s) == [k |-> "string", s |-> s]
Obj(f) == [k |-> "object", f |-> f]
Arr(f, len) == [k |-> "array", f |-> f, len |-> len]

EmptyObj == Obj(<<>>)
EmptyArr == Arr(<<>>, 0)

IsContainer(v) == v.k \in {"object", "array"}

\* ToBoolean
Truthy(v) ==
    CASE v.k = "undefined" -> FALSE
      [] v.k = "null" -> FALSE
      [] v.k = "boolean" -> v.b
      [] v.k = "number" -> v.n # 0
      [] v.k = "string" -> v.s # <<>>
      [] OTHER -> TRUE

\* a || null
OrNull(v) == IF Truthy(v) THEN v ELSE Null

Digits == <<"0", "1", "2", "3", "4", "5", "6", "7", "8", "9">>

IsDigit(c) == \E i \in 1..10 : Digits[i] = c

DigitVal(c) == (CHOOSE i \in 1..10 : Digits[i] = c) - 1

RECURSIVE NumToStr(_)
\* ToString of a non-negative integer
NumToStr(n) == IF n < 10 THEN <<Digits[n + 1]>> ELSE NumToStr(n \div 10) \o <<Digits[(n % 10) + 1]>>

RECURSIVE StrToNum(_)
StrToNum(s) == IF s = <<>> THEN 0 ELSE 10 * StrToNum(SubSeq(s, 1, Len(s) - 1)) + DigitVal(s[Len(s)])

\* An array index is a canonical decimal numeral: "0", "1", "10", but not "01", "1a", "-1", "".
IsArrayIndex(key) ==
    /\ key # <<>>
    /\ \A i \in 1..Len(key) : IsDigit(key[i])
    /\ (Len(key) = 1 \/ key[1] # "0")

\* Number.isNaN(parseInt(key, 10)): an optional sign, then at least one digit; what follows is ignored.
ParseIntIsNaN(key) ==
    LET body == IF key # <<>> /\ key[1] \in {"-", "+"} THEN Tail(key) ELSE key
    IN  body = <<>> \/ ~IsDigit(body[1])

HasKey(v, key) == IsContainer(v) /\ key \in DOMAIN v.f

\* obj[key] for an obj that is neither undefined nor null (those throw, see Throws).
GetProp(obj, key) ==
    CASE IsContainer(obj) -> IF key \in DOMAIN obj.f THEN obj.f[key] ELSE Undef
      [] obj.k = "string" ->
            IF IsArrayIndex(key) /\ StrToNum(key) < Len(obj.s)
            THEN Str(<<obj.s[StrToNum(key) + 1]>>)
            ELSE Undef
      [] OTHER -> Undef

\* Reading a property of undefined or null throws a TypeError.
Throws(obj) == obj.k \in {"undefined", "null"}

\* obj[key] = v on a container: an array grows when key is an index at or past its length.
PutProp(obj, key, v) ==
    LET f2 == (key :> v) @@ obj.f
    IN  IF obj.k = "array"
        THEN Arr(f2, IF IsArrayIndex(key) /\ StrToNum(key) >= obj.len THEN StrToNum(key) + 1 ELSE obj.len)
        ELSE Obj(f2)

\* arr.push(v)
Push(arr, v) == Arr((NumToStr(arr.len) :> v) @@ arr.f, arr.len + 1)

\* obj.slice(-1)[0] for an obj that has a slice method (arrays and strings).
LastOf(obj) ==
    IF obj.k = "array"
    THEN IF obj.len > 0 /\ NumToStr(obj.len - 1) \in DOMAIN obj.f THEN obj.f[NumToStr(obj.len - 1)] ELSE Undef
    ELSE IF Len(obj.s) > 0 THEN Str(<<obj.s[Len(obj.s)]>>) ELSE Undef

HasSlice(obj) == obj.k \in {"array", "string"}

---------------------------------------------------------------------------
(* NgRFModelSetterService *)

Thrown == [k |-> "thrown"]      \* the reduce was left by an exception

IndexOf(s, c) == IF \E i \in 1..Len(s) : s[i] = c THEN CHOOSE i \in 1..Len(s) : s[i] = c /\ \A j \in 1..(i - 1) : s[j] # c ELSE 0

\* String.prototype.replace(c, by) with a string pattern: the first occurrence only.
ReplaceFirst(s, c, by) ==
    LET i == IndexOf(s, c)
    IN  IF i = 0 THEN s ELSE SubSeq(s, 1, i - 1) \o by \o SubSeq(s, i + 1, Len(s))

RECURSIVE Split(_, _)
\* String.prototype.split(sep) for a one-character sep: "" splits to [""].
Split(s, sep) ==
    LET i == IndexOf(s, sep)
    IN  IF i = 0 THEN <<s>> ELSE <<SubSeq(s, 1, i - 1)>> \o Split(SubSeq(s, i + 1, Len(s)), sep)

\* path.replace('[', separator).replace(']', '').split(separator)
GeneratePathPieces(p, sep) == Split(ReplaceFirst(ReplaceFirst(p, "[", <<sep>>), "]", <<>>), sep)

\* Mutant: the empty key takes the first element, obj.slice(0, 1)[0]
PiecesReducer_First(obj, key) ==
    IF key = <<>>
    THEN IF Throws(obj) \/ ~HasSlice(obj) THEN Thrown
         ELSE IF obj.k = "array" THEN GetProp(obj, <<"0">>)
         ELSE IF Len(obj.s) > 0 THEN Str(<<obj.s[1]>>) ELSE Undef
    ELSE IF Throws(obj) THEN Thrown ELSE GetProp(obj, key)

\* key === '' ? obj.slice(-1)[0] : obj[key]; Thrown when the expression throws a TypeError.
PiecesReducer(obj, key) ==
    IF key = <<>>
    THEN IF Throws(obj) \/ ~HasSlice(obj) THEN Thrown ELSE LastOf(obj)
    ELSE IF Throws(obj) THEN Thrown ELSE GetProp(obj, key)

RECURSIVE ReducePieces(_, _, _)
\* pathPieces.reduce(this.piecesReducer, model), from piece i on with accumulator acc
ReducePieces(pieces, i, acc) ==
    IF acc = Thrown \/ i > Len(pieces) THEN acc
    ELSE ReducePieces(pieces, i + 1, PiecesReducer(acc, pieces[i]))

\* getValue(path, model, separator); path is always a string here (never null / undefined).
GetValue(p, m, sep) ==
    IF ~Truthy(m) THEN Null
    ELSE LET r == ReducePieces(GeneratePathPieces(p, sep), 1, m)
         IN  IF r = Thrown THEN Null ELSE OrNull(r)

\* key === '' || !isNaN(parseInt(key, 10))
IsArrayKey(key) == key = <<>> \/ ~ParseIntIsNaN(key)

\* pathPieces[i + 1] || pathPieces['finalKey'] (pieces are 1-based here); never null, as finalKey is a string
NextKey(pieces, i, finalKey) ==
    IF i + 1 <= Len(pieces) /\ pieces[i + 1] # <<>> THEN pieces[i + 1] ELSE finalKey

\* Mutant: the created container is never attached (obj[key] = prop is missing)
GetTargetPropToSet_NoAttach(obj, key, i, pieces, finalKey) ==
    LET prop == GetProp(obj, key)
        fresh == IF IsArrayKey(NextKey(pieces, i, finalKey)) THEN EmptyArr ELSE EmptyObj
    IN  IF Truthy(prop) THEN [thrown |-> FALSE, prop |-> prop, obj |-> obj]
        ELSE [thrown |-> FALSE, prop |-> fresh, obj |-> obj]

\* Mutant: the next key is pathPieces[i + 1] alone, without the final key as fallback
GetTargetPropToSet_NoFinalKey(obj, key, i, pieces, finalKey) ==
    LET prop == GetProp(obj, key)
        fresh == IF i + 1 <= Len(pieces) /\ IsArrayKey(pieces[i + 1]) THEN EmptyArr ELSE EmptyObj
    IN  IF Truthy(prop) THEN [thrown |-> FALSE, prop |-> prop, obj |-> obj]
        ELSE IF IsContainer(obj) THEN [thrown |-> FALSE, prop |-> fresh, obj |-> PutProp(obj, key, fresh)]
        ELSE [thrown |-> TRUE, prop |-> fresh, obj |-> obj]

\* Mutant: a container is created and attached at every step (the test of !prop is missing)
GetTargetPropToSet_AlwaysNew(obj, key, i, pieces, finalKey) ==
    LET fresh == IF IsArrayKey(NextKey(pieces, i, finalKey)) THEN EmptyArr ELSE EmptyObj
    IN  IF IsContainer(obj) THEN [thrown |-> FALSE, prop |-> fresh, obj |-> PutProp(obj, key, fresh)]
        ELSE [thrown |-> TRUE, prop |-> fresh, obj |-> obj]

\* One step of the write traversal on obj (truthy): the prop to descend into, obj after the
\* step, and whether obj[key] = prop threw (a primitive obj, in strict mode code).
GetTargetPropToSet(obj, key, i, pieces, finalKey) ==
    LET prop == GetProp(obj, key)
        fresh == IF IsArrayKey(NextKey(pieces, i, finalKey)) THEN EmptyArr ELSE EmptyObj
    IN  IF Truthy(prop) THEN [thrown |-> FALSE, prop |-> prop, obj |-> obj]
        ELSE IF IsContainer(obj) THEN [thrown |-> FALSE, prop |-> fresh, obj |-> PutProp(obj, key, fresh)]
        ELSE [thrown |-> TRUE, prop |-> fresh, obj |-> obj]

\* Mutant: the final key is always assigned, the empty key is never an append
FinalWrite_AssignOnly(target, finalKey, v) ==
    LET targetProp == OrNull(target)
    IN  IF IsContainer(targetProp) THEN [thrown |-> FALSE, obj |-> PutProp(targetProp, finalKey, v)]
        ELSE [thrown |-> TRUE, obj |-> target]

\* const targetProp = ... || null; then targetProp.push(value) or targetProp[finalKey] = value
FinalWrite(target, finalKey, v) ==
    LET targetProp == OrNull(target)
    IN  IF finalKey = <<>>
        THEN IF targetProp.k = "array" THEN [thrown |-> FALSE, obj |-> Push(targetProp, v)]
             ELSE [thrown |-> TRUE, obj |-> target]
        ELSE IF IsContainer(targetProp) THEN [thrown |-> FALSE, obj |-> PutProp(targetProp, finalKey, v)]
             ELSE [thrown |-> TRUE, obj |-> target]

RECURSIVE SetReduce(_, _, _, _, _)
\* The reduce over the non-final pieces from piece i on, followed by the final write, seen
\* from obj: what obj has become (every mutation made before an exception stays), and
\* whether an exception was thrown. The prop a step returns is the object held at
\* obj[key], so what the rest of the call does to it shows in obj; a prop that obj does
\* not hold is mutated without obj changing.
SetReduce(obj, pieces, i, finalKey, v) ==
    IF i > Len(pieces) THEN FinalWrite(obj, finalKey, v)
    ELSE LET s == GetTargetPropToSet(obj, pieces[i], i, pieces, finalKey)
         IN  IF s.thrown THEN [thrown |-> TRUE, obj |-> s.obj]
             ELSE LET r == SetReduce(s.prop, pieces, i + 1, finalKey, v)
                  IN  [thrown |-> r.thrown,
                       obj |-> IF IsContainer(s.obj) /\ GetProp(s.obj, pieces[i]) = s.prop
                               THEN PutProp(s.obj, pieces[i], r.obj)
                               ELSE s.obj]

\* The try block of setValue.
SetValueTry(p, v, m, sep) ==
    LET all == GeneratePathPieces(p, sep)
        finalKey == all[Len(all)]
        pieces == SubSeq(all, 1, Len(all) - 1)
    IN  SetReduce(m, pieces, 1, finalKey, v)

\* setValue(path, value, model, separator): the model after the call, whether console.error
\* was called, whether the final write was made, whether an exception escaped.
SetValue(p, v, m, sep) ==
    IF ~(p # <<>> /\ Truthy(m))
    THEN [model |-> m, logged |-> FALSE, wrote |-> FALSE, raised |-> FALSE]
    ELSE LET r == SetValueTry(p, v, m, sep)
         IN  [model |-> r.obj, logged |-> r.thrown, wrote |-> ~r.thrown, raised |-> FALSE]

\* Mutant: newValue is passed on as it is, without || null
SetModelValue_Raw(modelPath, newValue, data) == SetValue(modelPath, newValue, data, ".")

\* NgRFModelDirective.setModelValue: setValue(modelPath, newValue || null, rfModelData)
SetModelValue(modelPath, newValue, data) == SetValue(modelPath, OrNull(newValue), data, ".")

---------------------------------------------------------------------------
(* Inputs of the accessor calls *)

PathChars == {"a", "0", ".", "[", "]"}

StepTokens == {<<>>, <<"a">>, <<"0">>, <<"1", "a">>}

RECURSIVE Join(_, _)
Join(steps, sep) ==
    IF Len(steps) = 1 THEN steps[1]
    ELSE steps[1] \o <<sep>> \o Join(Tail(steps), sep)

\* every string of up to MaxPathLen characters
CharPaths == UNION {[1..n -> PathChars] : n \in 0..MaxPathLen}

\* every path of up to MaxSteps steps joined by the separator
StepPaths == {Join(s, ".") : s \in UNION {[1..n -> StepTokens] : n \in 1..MaxSteps}}

\* paths in bracket syntax: a[0]  a[]  a[0].a  a[0][0]  a.a[0]
BracketPaths ==
    { <<"a", "[", "0", "]">>,
      <<"a", "[", "]">>,
      <<"a", "[", "0", "]", ".", "a">>,
      <<"a", "[", "0", "]", "[", "0", "]">>,
      <<"a", ".", "a", "[", "0", "]">> }

Paths == CharPaths \cup StepPaths \cup BracketPaths

Values == {Undef, Null, Bool(FALSE), Num(0), Str(<<>>), Str(<<"x">>), Num(7)}

\* [e1, ..., en]
ArrOf(seq) == Arr([key \in {NumToStr(j - 1) : j \in 1..Len(seq)} |-> seq[StrToNum(key) + 1]], Len(seq))

Leaves == {Null, Num(0), Num(5), Str(<<"a", "b">>)}

Inner ==
    { EmptyObj,
      EmptyArr,
      Obj(<<"a">> :> Num(5)),
      Obj(<<"a">> :> Num(0)),
      ArrOf(<<Num(0)>>),
      ArrOf(<<Str(<<"a", "b">>)>>),
      ArrOf(<<Num(1), Num(2)>>),
      PutProp(ArrOf(<<Num(1)>>), <<"1", "a">>, Num(3)),    \* an array with a named property
      Arr(<<"1">> :> Num(2), 2),                           \* a sparse array: [ <hole>, 2 ]
      Arr(<<"0">> :> Num(2), 2),                           \* a sparse array: [ 2, <hole> ]
      Obj(<<>> :> ArrOf(<<Num(4)>>)),                      \* an object with the key ''
      ArrOf(<<Obj(<<"a">> :> Num(6))>>),
      Obj(<<"a">> :> ArrOf(<<Num(1), Num(2)>>)),
      Obj(<<"a">> :> Obj(<<"a">> :> Num(8))) }

Models ==
    {Null, EmptyObj, EmptyArr}
    \cup {Obj(<<"a">> :> x) : x \in Leaves}
    \cup {Obj(<<"a">> :> x @@ <<"b">> :> Num(7)) : x \in Inner}
    \cup {ArrOf(<<x, Num(9)>>) : x \in {EmptyObj, EmptyArr, Str(<<"a", "b">>), ArrOf(<<Num(1), Num(2)>>), Obj(<<"a">> :> Num(5))}}

---------------------------------------------------------------------------
(* Accessor calls: one setValue (or the directive's setModelValue), then one getValue *)

NoControl == [k |-> "none"]

DirIdle ==
    /\ rfModelData = Null
    /\ formGroup = <<>>
    /\ ctrlValue = <<>>
    /\ subscribers = <<>>
    /\ dir = <<>>
    /\ last = <<>>
    /\ events = 0

Init ==
    /\ path \in Paths
    /\ value \in Values
    /\ model \in Models
    /\ model0 = model
    /\ pc = "ready"
    /\ result = Undef
    /\ logged = FALSE
    /\ raised = FALSE
    /\ DirIdle

CallSetValue ==
    /\ pc = "ready"
    /\ LET r == SetValue(path, value, model, ".")
       IN  /\ model' = r.model
           /\ logged' = r.logged
           /\ raised' = r.raised
    /\ pc' = "set"
    /\ UNCHANGED <<path, value, model0, result>>
    /\ UNCHANGED dirVars

CallSetModelValue ==
    /\ pc = "ready"
    /\ LET r == SetModelValue(path, value, model)
       IN  /\ model' = r.model
           /\ logged' = r.logged
           /\ raised' = r.raised
    /\ pc' = "setModel"
    /\ UNCHANGED <<path, value, model0, result>>
    /\ UNCHANGED dirVars

CallGetValue ==
    /\ pc \in {"ready", "set", "setModel"}
    /\ result' = GetValue(path, model, ".")
    /\ pc' = IF pc = "ready" THEN "got" ELSE IF pc = "set" THEN "setgot" ELSE "setModelgot"
    /\ UNCHANGED <<path, value, model, model0, logged, raised>>
    /\ UNCHANGED dirVars

Next == CallSetValue \/ CallSetModelValue \/ CallGetValue

Spec == Init /\ [][Next]_vars

---------------------------------------------------------------------------
(* Vocabulary of the claims about the accessor *)

Pieces == GeneratePathPieces(path, ".")
FinalKey == Pieces[Len(Pieces)]
NonFinal == SubSeq(Pieces, 1, Len(Pieces) - 1)

AfterSetValue == pc \in {"set", "setgot"}
AfterSetModelValue == pc \in {"setModel", "setModelgot"}
AfterGetValue == pc \in {"got", "setgot", "setModelgot"}

\* The call passed its guard and ended without reporting an error: the final write was made.
Completed == path # <<>> /\ Truthy(model0) /\ ~logged

RECURSIVE Chain(_, _)
\* v[k1][k2]...[kn] by own keys, undefined as soon as a step is missing
Chain(v, steps) ==
    IF steps = <<>> THEN v
    ELSE IF Throws(v) THEN Undef
    ELSE Chain(GetProp(v, steps[1]), Tail(steps))

\* What the final key addresses once the write is made
StoredAtFinal(m) ==
    LET t == Chain(m, NonFinal)
    IN  IF FinalKey = <<>>
        THEN (IF t.k = "array" THEN LastOf(t) ELSE Undef)
        ELSE GetProp(t, FinalKey)

RECURSIVE RefDeref(_, _)
\* The reference dereference: a non-empty step indexes the current value by that key, an
\* empty step takes the last element of the current array; def is FALSE where it is undefined.
RefDeref(v, steps) ==
    IF steps = <<>> THEN [def |-> TRUE, v |-> v]
    ELSE IF v.k \in {"undefined", "null"} THEN [def |-> FALSE, v |-> Undef]
    ELSE IF steps[1] = <<>>
         THEN IF v.k = "array"
              THEN RefDeref(IF v.len > 0 /\ NumToStr(v.len - 1) \in DOMAIN v.f
                            THEN v.f[NumToStr(v.len - 1)] ELSE Undef, Tail(steps))
              ELSE [def |-> FALSE, v |-> Undef]
         ELSE RefDeref(GetProp(v, steps[1]), Tail(steps))

---------------------------------------------------------------------------
(* Claims about the accessor, checked under Spec *)

\* C1: round trip. After setValue(p, v, {}) with every step of p a non-empty key and v
\* truthy, getValue(p, m) returns exactly v.
C1_RoundTrip ==
    (/\ pc = "setgot"
     /\ model0 = EmptyObj
     /\ Truthy(value)
     /\ \A i \in 1..Len(Pieces) : Pieces[i] # <<>>)
    => result = value

C1_Witness ==
    /\ pc = "setgot"
    /\ model0 = EmptyObj
    /\ Truthy(value)
    /\ Len(Pieces) = 3
    /\ \A i \in 1..Len(Pieces) : Pieces[i] # <<>>
    /\ IsArrayKey(Pieces[2])
    /\ result = value

\* C2 as stated: a setValue call with a falsy value that completes its write leaves null,
\* not the falsy value, at the final key.
C2_SetValueErasesFalsy ==
    (AfterSetValue /\ Completed /\ ~Truthy(value)) => StoredAtFinal(model) = Null

\* C2 amended: the erasure is made by the directive's setModelValue. After a
\* setModelValue call with a falsy value that completes its write, the value at the
\* final key is null.
C2_SetModelValueErasesFalsy ==
    (AfterSetModelValue /\ Completed /\ ~Truthy(value)) => StoredAtFinal(model) = Null

C2_Witness ==
    /\ pc = "setModel"
    /\ Completed
    /\ value = Num(0)
    /\ Len(Pieces) = 2
    /\ StoredAtFinal(model) = Null
    /\ StoredAtFinal(model0) # Null

\* The next key as the claim C3 reads it: the step after i among the non-final steps if
\* there is one, the final key only if there is none.
C3_NextKey(i) == IF i + 1 <= Len(NonFinal) THEN NonFinal[i + 1] ELSE FinalKey

\* C3 as stated: a container that setValue created at a missing non-final step i is an
\* array iff the next key is the empty step or parses as a base-10 integer.
C3_KindByNextKey ==
    (AfterSetValue /\ path # <<>> /\ Truthy(model0))
    => \A i \in 1..Len(NonFinal) :
          LET before == Chain(model0, SubSeq(NonFinal, 1, i))
              after == Chain(model, SubSeq(NonFinal, 1, i))
          IN  (~Truthy(before) /\ IsContainer(after))
              => ((after.k = "array") <=> (C3_NextKey(i) = <<>> \/ ~ParseIntIsNaN(C3_NextKey(i))))

\* C4 as stated: getValue returns null whenever an intermediate step is missing, or an
\* empty step is applied to a value that is not an array.
C4_NullOnMissing ==
    (/\ AfterGetValue
     /\ \E i \in 1..Len(Pieces) :
           LET cur == ReducePieces(SubSeq(Pieces, 1, i - 1), 1, model)
           IN  /\ cur # Thrown
               /\ \/ i >= 2 /\ cur.k \in {"undefined", "null"}
                  \/ Pieces[i] = <<>> /\ cur.k # "array")
    => result = Null

\* C5: where the reference dereference of the path is defined, getValue returns its
\* value if truthy and null if falsy.
C5_AgreesWithReference ==
    AfterGetValue =>
        LET r == RefDeref(model, Pieces)
        IN  r.def => result = (IF Truthy(r.v) THEN r.v ELSE Null)

C5_Witness ==
    /\ pc = "got"
    /\ Len(Pieces) = 2
    /\ Pieces[2] = <<>>
    /\ RefDeref(model, Pieces).def
    /\ Truthy(RefDeref(model, Pieces).v)
    /\ result = RefDeref(model, Pieces).v

\* C6: append. When the final step is empty and the non-final steps reach an array
\* e1..en, setValue leaves that array as e1..en followed by the value.
C6_Append ==
    (/\ AfterSetValue
     /\ path # <<>>
     /\ Truthy(model0)
     /\ FinalKey = <<>>
     /\ Chain(model0, NonFinal).k = "array")
    => LET before == Chain(model0, NonFinal)
           after == Chain(model, NonFinal)
       IN  /\ after.k = "array"
           /\ after.len = before.len + 1
           /\ DOMAIN after.f = DOMAIN before.f \cup {NumToStr(before.len)}
           /\ \A key \in DOMAIN before.f : after.f[key] = before.f[key]
           /\ after.f[NumToStr(before.len)] = value

C6_Witness ==
    /\ pc = "set"
    /\ FinalKey = <<>>
    /\ Len(NonFinal) = 1
    /\ Chain(model0, NonFinal).k = "array"
    /\ Chain(model0, NonFinal).len = 2
    /\ Chain(model, NonFinal).len = 3

\* C7: setValue never raises, and a call that does not complete its final write (a guard
\* case, or an error reported on the console) leaves the model as it was.
C7_FailedWriteIsNoOp ==
    AfterSetValue =>
        /\ ~raised
        /\ (~Completed => model = model0)

C7_Witness ==
    /\ pc = "set"
    /\ logged
    /\ Len(NonFinal) >= 1
    /\ model = model0

RECURSIVE C9_Frame(_, _, _)
\* after is before with only the rest of the path (from non-final step i on) written:
\* the same kind of container, every key off the path as it was, an existing truthy
\* value on the path descended into, a missing one replaced by a container holding
\* nothing but the path.
C9_Frame(before, after, i) ==
    /\ IsContainer(before)
    /\ IsContainer(after)
    /\ after.k = before.k
    /\ IF i > Len(NonFinal)
       THEN LET key == IF FinalKey = <<>> THEN NumToStr(before.len) ELSE FinalKey
            IN  /\ DOMAIN after.f = DOMAIN before.f \cup {key}
                /\ \A k2 \in DOMAIN before.f \ {key} : after.f[k2] = before.f[k2]
                /\ after.f[key] = value
       ELSE LET key == NonFinal[i]
                old == GetProp(before, key)
            IN  /\ DOMAIN after.f = DOMAIN before.f \cup {key}
                /\ \A k2 \in DOMAIN before.f \ {key} : after.f[k2] = before.f[k2]
                /\ IF Truthy(old)
                   THEN C9_Frame(old, after.f[key], i + 1)
                   ELSE /\ IsContainer(after.f[key])
                        /\ C9_Frame(IF after.f[key].k = "array" THEN EmptyArr ELSE EmptyObj,
                                    after.f[key], i + 1)

\* C9: a completed setValue replaces no existing truthy container on the path and
\* changes nothing off the path.
C9_FrameOfWrite ==
    (AfterSetValue /\ Completed) => C9_Frame(model0, model, 1)

C9_Witness ==
    /\ pc = "set"
    /\ Completed
    /\ Len(NonFinal) = 2
    /\ IsContainer(GetProp(model0, NonFinal[1]))
    /\ ~Truthy(Chain(model0, NonFinal))
    /\ Cardinality(DOMAIN model0.f) = 2
    /\ model # model0

---------------------------------------------------------------------------
(* NgRFModelDirective: directives inside one NgRFFormComponent *)

Directives == {1, 2}

\* rfModel attribute values: "a", "m.a", "m.a.a", "m.a.", "m." and "m.a..a"
Names ==
    { <<"a">>,
      <<"m", ".", "a", ".", ".", "a">>,
      <<"m", ".", "a">>,
      <<"m", ".", "a", ".", "a">>,
      <<"m", ".", "a", ".">>,
      <<"m", ".">> }

FormModels == {EmptyObj, Obj(<<"a">> :> Num(5))}

InputStrings == {Str(<<>>), Str(<<"x">>)}     \* HTMLInputElement.value is a string

ControlValues == {Num(0), Num(7)}             \* values other code gives to a control

\* FormGroup.get(name): the name is split on '.' and resolved through nested groups; the
\* controls registered here are plain controls, so only an undotted name finds one. 0: null.
FormGroupGet(controls, name) ==
    IF IndexOf(name, ".") = 0 /\ name \in DOMAIN controls THEN controls[name] ELSE 0

\* FormGroup.addControl(name, control): a name already registered keeps its control.
AddControl(controls, name, c) ==
    IF name \in DOMAIN controls THEN controls ELSE (name :> c) @@ controls

\* FormGroup.removeControl(name)
RemoveControl(controls, name) == [n \in DOMAIN controls \ {name} |-> controls[n]]

\* rfModelName.substr(rfModelName.indexOf('.') + 1)
GetModelPathWithoutFirstPart(name) == SubSeq(name, IndexOf(name, ".") + 1, Len(name))

InitDir ==
    /\ rfModelData \in FormModels
    /\ formGroup = <<>>
    /\ ctrlValue = [c \in Directives |-> NoControl]
    /\ subscribers = [c \in Directives |-> <<>>]
    /\ dir \in { [d \in Directives |->
                    [rfModelName |-> names[d], phase |-> "new", isRegisteredToFormControl |-> FALSE,
                     parentFormGroup |-> FALSE, formControl |-> 0, modelPath |-> <<>>]]
                 : names \in [Directives -> Names] }
    /\ last = [ctrl |-> 0, failed |-> {}]
    /\ events = 0

AccIdle ==
    /\ path = <<>>
    /\ value = Undef
    /\ model = Null
    /\ model0 = Null
    /\ pc = "idle"
    /\ result = Undef
    /\ logged = FALSE
    /\ raised = FALSE

DirectiveInit == AccIdle /\ InitDir

\* ngOnInit: modelPath, registerToFormGroup (the directive is not registered yet, and is
\* inside a form, so formGroup is rfForm.formGroup), subscribeToValueChanges.
\* getFormControl reuses the control the group finds under the name or makes a new one,
\* whose value is getModelValue() || null. The control directive d creates has id d.
NgOnInit(d) ==
    /\ dir[d].phase = "new"
    /\ LET name == dir[d].rfModelName
           modelPath == GetModelPathWithoutFirstPart(name)
           found == FormGroupGet(formGroup, name)
           c == IF found # 0 THEN found ELSE d
       IN  /\ ctrlValue' = IF found # 0 THEN ctrlValue
                           ELSE [ctrlValue EXCEPT ![d] = OrNull(GetValue(modelPath, rfModelData, "."))]
           /\ formGroup' = AddControl(formGroup, name, c)
           /\ subscribers' = [subscribers EXCEPT ![c] = Append(@, d)]
           /\ dir' = [dir EXCEPT ![d] = [@ EXCEPT !.phase = "init", !.modelPath = modelPath,
                                                  !.formControl = c, !.isRegisteredToFormControl = TRUE,
                                                  !.parentFormGroup = TRUE]]
    /\ UNCHANGED <<rfModelData, last, events>>
    /\ UNCHANGED accVars

\* registerToFormGroup called again on a directive that ngOnInit has registered
RegisterToFormGroup(d) ==
    /\ dir[d].phase = "init"
    /\ IF dir[d].isRegisteredToFormControl
       THEN UNCHANGED <<formGroup, ctrlValue, dir>>
       ELSE LET name == dir[d].rfModelName
                found == FormGroupGet(formGroup, name)
                c == IF found # 0 THEN found ELSE d
            IN  /\ ctrlValue' = IF found # 0 THEN ctrlValue
                                ELSE [ctrlValue EXCEPT ![d] = OrNull(GetValue(dir[d].modelPath, rfModelData, "."))]
                /\ formGroup' = AddControl(formGroup, name, c)
                /\ dir' = [dir EXCEPT ![d] = [@ EXCEPT !.formControl = c, !.isRegisteredToFormControl = TRUE,
                                                       !.parentFormGroup = TRUE]]
    /\ UNCHANGED <<rfModelData, subscribers, last, events>>
    /\ UNCHANGED accVars

\* ngOnDestroy: the control under rfModelName is removed from the parent group. The
\* subscription to valueChanges is kept.
NgOnDestroy(d) ==
    /\ dir[d].phase = "init"
    /\ formGroup' = IF dir[d].parentFormGroup THEN RemoveControl(formGroup, dir[d].rfModelName) ELSE formGroup
    /\ dir' = [dir EXCEPT ![d] = [@ EXCEPT !.phase = "destroyed"]]
    /\ UNCHANGED <<rfModelData, ctrlValue, subscribers, last, events>>
    /\ UNCHANGED accVars

RECURSIVE Deliver(_, _, _, _)
\* valueChanges emits newValue: the subscribers' callbacks run in the order they subscribed,
\* each calling setModelValue(newValue). The model after them, and the subscribers whose
\* setValue call did not make its write.
Deliver(subs, newValue, data, failed) ==
    IF subs = <<>> THEN [model |-> data, failed |-> failed]
    ELSE LET r == SetModelValue(dir[Head(subs)].modelPath, newValue, data)
         IN  Deliver(Tail(subs), newValue, r.model,
                     IF r.wrote THEN failed ELSE failed \cup {Head(subs)})

\* FormControl.setValue(v): the value is stored and valueChanges emits it.
ControlSetValue(c, v) ==
    /\ events < MaxEvents
    /\ LET r == Deliver(subscribers[c], v, rfModelData, {})
       IN  /\ rfModelData' = r.model
           /\ last' = [ctrl |-> c, failed |-> r.failed]
    /\ ctrlValue' = [ctrlValue EXCEPT ![c] = v]
    /\ events' = events + 1
    /\ UNCHANGED <<formGroup, subscribers, dir>>
    /\ UNCHANGED accVars

\* The host listener of 'input': formControl.setValue(input.value, ...)
OnModelChange(d, s) ==
    /\ dir[d].phase = "init"
    /\ ControlSetValue(dir[d].formControl, s)

\* Other code sets the value of a control that exists: the subscription callback runs.
ValueChanges(c, v) ==
    /\ ctrlValue[c] # NoControl
    /\ ControlSetValue(c, v)

DirectiveNext ==
    \/ \E d \in Directives : NgOnInit(d)
    \/ \E d \in Directives : RegisterToFormGroup(d)
    \/ \E d \in Directives : NgOnDestroy(d)
    \/ \E d \in Directives, s \in InputStrings : OnModelChange(d, s)
    \/ \E c \in Directives, v \in ControlValues : ValueChanges(c, v)

DirectiveSpec == DirectiveInit /\ [][DirectiveNext]_vars

---------------------------------------------------------------------------
(* Claims about the directive, checked under DirectiveSpec *)

\* The latest notification was of the control of directive d, which has run ngOnInit.
C8_Notified(d) == dir[d].phase # "new" /\ last.ctrl = dir[d].formControl

C8_InSync(d) == GetValue(dir[d].modelPath, rfModelData, ".") = OrNull(ctrlValue[dir[d].formControl])

C8_NoInnerEmptyStep(p) ==
    LET ps == GeneratePathPieces(p, ".")
    IN  \A i \in 1..(Len(ps) - 1) : ps[i] # <<>>

C10_ControlRegistered ==
    \A d \in Directives :
        dir[d].phase = "init"
        => /\ dir[d].rfModelName \in DOMAIN formGroup
           /\ formGroup[dir[d].rfModelName] = dir[d].formControl

====
